---- MODULE Spec2Model ----
(***************************************************************************)
(* A model of app.py, the clinic patient-tracking backend: a Flask         *)
(* application that keeps patient rows in one Google Sheet, serves them    *)
(* through a 30 second in-memory cache, appends rows and increments a      *)
(* per-row visit counter.                                                  *)
(*                                                                         *)
(* Requests are served by two threads (Flask's development server is       *)
(* threaded); a handler is split into steps at each access to the shared   *)
(* module globals and at each call of the remote sheet.  Strings are TLA+  *)
(* strings; str(), int(), str.lower() and the other conversions work on    *)
(* their characters.                                                       *)
(***************************************************************************)
EXTENDS Integers, Sequences, FiniteSets, TLC

(***************************************************************************)
(* Bounds of the model.                                                    *)
(***************************************************************************)
\* Requests served in one behaviour, over both threads.
MaxRequests == 3
\* Largest column index column_to_letter is run on (702 is "AAA").
MaxColIndex == 702
\* Longest token list matches_today is called on.
MaxTokens == 2

\* The two request threads.
Threads == {1, 2}

(***************************************************************************)
(* Strings.                                                                *)
(***************************************************************************)
UpperLetters ==
    <<"A", "B", "C", "D", "E", "F", "G", "H", "I", "J", "K", "L", "M",
      "N", "O", "P", "Q", "R", "S", "T", "U", "V", "W", "X", "Y", "Z">>
LowerLetters ==
    <<"a", "b", "c", "d", "e", "f", "g", "h", "i", "j", "k", "l", "m",
      "n", "o", "p", "q", "r", "s", "t", "u", "v", "w", "x", "y", "z">>
DecimalDigits == <<"0", "1", "2", "3", "4", "5", "6", "7", "8", "9">>
Whitespace == {" ", "\t", "\n", "\r"}

\* s[i], 1-based.
Char(s, i) == SubSeq(s, i, i)

\* The 1-based position of character c in alphabet, 0 when it is not there.
IndexIn(alphabet, c) ==
    IF \E k \in 1..Len(alphabet) : alphabet[k] = c
    THEN CHOOSE k \in 1..Len(alphabet) : alphabet[k] = c
    ELSE 0

\* str.lower()
RECURSIVE Lower(_)
Lower(s) ==
    IF s = "" THEN ""
    ELSE LET c == Char(s, 1)
             k == IndexIn(UpperLetters, c)
         IN (IF k > 0 THEN LowerLetters[k] ELSE c) \o Lower(Tail(s))

\* str.upper() of one character
UpperChar(c) ==
    LET k == IndexIn(LowerLetters, c)
    IN IF k > 0 THEN UpperLetters[k] ELSE c

\* str.capitalize(): first character upper-cased, the rest lower-cased.
Capitalize(s) ==
    IF s = "" THEN "" ELSE UpperChar(Char(s, 1)) \o Lower(Tail(s))

\* str.strip()
RECURSIVE LStrip(_)
LStrip(s) ==
    IF s # "" /\ Char(s, 1) \in Whitespace THEN LStrip(Tail(s)) ELSE s

RECURSIVE RStrip(_)
RStrip(s) ==
    IF s # "" /\ Char(s, Len(s)) \in Whitespace
    THEN RStrip(SubSeq(s, 1, Len(s) - 1))
    ELSE s

Strip(s) == RStrip(LStrip(s))

\* sub in s
Contains(sub, s) ==
    \E k \in 1..(Len(s) - Len(sub) + 1) : SubSeq(s, k, k + Len(sub) - 1) = sub

\* s.replace(old, new), old not empty: left to right, not overlapping.
RECURSIVE Replace(_, _, _)
Replace(s, old, new) ==
    IF Len(s) < Len(old) THEN s
    ELSE IF SubSeq(s, 1, Len(old)) = old
         THEN new \o Replace(SubSeq(s, Len(old) + 1, Len(s)), old, new)
         ELSE Char(s, 1) \o Replace(Tail(s), old, new)

\* s.split(","): the pieces between commas, empty ones included.
RECURSIVE SplitFrom(_, _)
SplitFrom(s, piece) ==
    IF s = "" THEN <<piece>>
    ELSE IF Char(s, 1) = ","
         THEN <<piece>> \o SplitFrom(Tail(s), "")
         ELSE SplitFrom(Tail(s), piece \o Char(s, 1))

Split(s) == SplitFrom(s, "")

\* str(n) of an int n >= 0
RECURSIVE IntToStr(_)
IntToStr(n) ==
    IF n < 10 THEN DecimalDigits[n + 1]
    ELSE IntToStr(n \div 10) \o DecimalDigits[(n % 10) + 1]

\* Whether int(s) accepts s: the cells of the model carry no sign, blank or
\* underscore, so a literal is a non-empty run of decimal digits.
IsIntLiteral(s) ==
    /\ s # ""
    /\ \A k \in 1..Len(s) : IndexIn(DecimalDigits, Char(s, k)) > 0

\* int(s) of a literal
RECURSIVE StrToInt(_)
StrToInt(s) ==
    IF s = "" THEN 0
    ELSE StrToInt(SubSeq(s, 1, Len(s) - 1)) * 10
         + (IndexIn(DecimalDigits, Char(s, Len(s))) - 1)

\* list.index(x): the 0-based position of the first x, -1 for ValueError.
ListIndex(list, x) ==
    IF \E k \in 1..Len(list) : list[k] = x
    THEN (CHOOSE k \in 1..Len(list) :
              list[k] = x /\ \A j \in 1..(k - 1) : list[j] # x) - 1
    ELSE -1

(***************************************************************************)
(* Configuration and tables.                                               *)
(***************************************************************************)
CACHE_TTL == 30

CANONICAL_HEADERS ==
    <<"Patient ID", "Name", "Number", "Age", "Gender", "Occupation",
      "Ref. by", "Address", "Date of joining", "Conditions", "Time",
      "Visit Days", "Visit Count">>

CanonicalKeys == {CANONICAL_HEADERS[k] : k \in 1..Len(CANONICAL_HEADERS)}

ALLOWED_KEY_VARIANTS ==
    [h \in CanonicalKeys |->
        CASE h = "Patient ID" -> <<"Patient ID", "Patient_ID", "patient_id", "patient id">>
          [] h = "Name" -> <<"Name", "name">>
          [] h = "Number" -> <<"Number", "number">>
          [] h = "Age" -> <<"Age", "age">>
          [] h = "Gender" -> <<"Gender", "gender">>
          [] h = "Occupation" -> <<"Occupation", "occupation">>
          [] h = "Ref. by" -> <<"Ref. by", "Ref.by", "Ref_by", "Ref by", "ref by", "ref.by">>
          [] h = "Address" -> <<"Address", "address">>
          [] h = "Date of joining" ->
                <<"Date of joining", "Date_of_joining", "Date of Joining", "date of joining">>
          [] h = "Conditions" -> <<"Conditions", "conditions">>
          [] h = "Time" -> <<"Time", "time">>
          [] h = "Visit Days" -> <<"Visit Days", "Visit_Days", "visit days", "visit_days">>
          [] h = "Visit Count" -> <<"Visit Count", "Visit_Count", "visit_count">>]

(***************************************************************************)
(* column_to_letter                                                        *)
(***************************************************************************)
\* chr((col_index % 26) + ord("A"))
ColumnLetterOffByOne(col_index) == UpperLetters[((col_index + 1) % 26) + 1]

ColumnLetter(col_index) == UpperLetters[(col_index % 26) + 1]

\* col_index // 26 - 1
ColumnCarry(col_index) == (col_index \div 26) - 1

\* The while loop, run to its end from (col_index, letters).
RECURSIVE ColumnLoop(_, _)
ColumnLoop(col_index, letters) ==
    IF col_index >= 0
    THEN ColumnLoop(ColumnCarry(col_index), ColumnLetter(col_index) \o letters)
    ELSE letters

column_to_letter(col_index) == ColumnLoop(col_index, "")

(***************************************************************************)
(* JSON values of a request body, tagged by their Python type.             *)
(***************************************************************************)
JStr(s) == [t |-> "str", s |-> s, n |-> 0, l |-> <<>>]
JNum(n) == [t |-> "int", s |-> "", n |-> n, l |-> <<>>]
JList(l) == [t |-> "list", s |-> "", n |-> 0, l |-> l]

\* bool(x)
Truthy(x) ==
    CASE x.t = "str" -> x.s # ""
      [] x.t = "int" -> x.n # 0
      [] x.t = "list" -> x.l # <<>>

\* x or ""
OrEmpty(x) == IF Truthy(x) THEN x ELSE JStr("")

\* str(x) of a string or an int (the model puts lists under Visit Days only).
PyStr(x) == IF x.t = "int" THEN IntToStr(x.n) ELSE x.s

\* A JSON object is the sequence of its <<key, value>> pairs, in order.
HasKey(data_dict, k) == \E j \in 1..Len(data_dict) : data_dict[j][1] = k

DictGet(data_dict, k, default) ==
    IF HasKey(data_dict, k)
    THEN data_dict[CHOOSE j \in 1..Len(data_dict) : data_dict[j][1] = k][2]
    ELSE default

\* {str(k).lower(): v for k, v in data_dict.items()}[lk]: the last pair
\* whose lowered key is lk wins.
LowerMapHas(data_dict, lk) == \E j \in 1..Len(data_dict) : Lower(data_dict[j][1]) = lk

LowerMapGet(data_dict, lk) ==
    data_dict[CHOOSE j \in 1..Len(data_dict) :
                 /\ Lower(data_dict[j][1]) = lk
                 /\ \A i \in (j + 1)..Len(data_dict) : Lower(data_dict[i][1]) # lk][2]

(***************************************************************************)
(* find_value_for_header                                                   *)
(***************************************************************************)
find_value_for_header(data_dict, header) ==
    LET variants == ALLOWED_KEY_VARIANTS[header]
        direct == {k \in 1..Len(variants) : HasKey(data_dict, variants[k])}
        folded == {k \in 1..Len(variants) : LowerMapHas(data_dict, Lower(variants[k]))}
        First(S) == CHOOSE k \in S : \A j \in S : k <= j
    IN IF direct # {} THEN DictGet(data_dict, variants[First(direct)], JStr(""))
       ELSE IF folded # {} THEN LowerMapGet(data_dict, Lower(variants[First(folded)]))
       ELSE IF HasKey(data_dict, header) THEN DictGet(data_dict, header, JStr(""))
       ELSE JStr("")

(***************************************************************************)
(* parse_visit_days, matches_today                                         *)
(***************************************************************************)
VISIT_DAY_SEPARATORS == <<";", "/", "\\", "|", " - ", "-", " to ">>

RECURSIVE ReplaceSeparators(_, _)
ReplaceSeparators(s, k) ==
    IF k > Len(VISIT_DAY_SEPARATORS) THEN s
    ELSE ReplaceSeparators(Replace(s, VISIT_DAY_SEPARATORS[k], ","), k + 1)

\* [t.strip() for t in pieces if t.strip()]
RECURSIVE StripTokens(_)
StripTokens(pieces) ==
    IF pieces = <<>> THEN <<>>
    ELSE LET t == Strip(Head(pieces))
         IN (IF t # "" THEN <<t>> ELSE <<>>) \o StripTokens(Tail(pieces))

parse_visit_days(raw) ==
    IF raw = "" THEN <<>>
    ELSE StripTokens(Split(Replace(ReplaceSeparators(Lower(raw), 1), "\n", ",")))

\* datetime.today().strftime("%A").lower()
Weekdays ==
    {"monday", "tuesday", "wednesday", "thursday", "friday", "saturday", "sunday"}

matches_today_daily_exact(tokens, day) ==
    LET today_short == SubSeq(day, 1, 3)
        Hit(t) == \/ t = "daily"
                  \/ t = day \/ t = today_short
                  \/ Contains(day, t) \/ Contains(today_short, t)
    IN \E k \in 1..Len(tokens) : Hit(tokens[k])

\* tokens is visit_tokens; day is today_full, the lowered weekday name.
matches_today(tokens, day) ==
    LET today_short == SubSeq(day, 1, 3)
        Hit(t) == \/ Contains("daily", t)
                  \/ t = day \/ t = today_short
                  \/ Contains(day, t) \/ Contains(today_short, t)
    IN \E k \in 1..Len(tokens) : Hit(tokens[k])

(***************************************************************************)
(* A patient record: a dict from key to string.                            *)
(***************************************************************************)
\* The dict built for one data row in get_cached_patients.
RowToPatientShort(headers_from_sheet, row) ==
    [canonical_h \in CanonicalKeys |->
        LET sheet_col_index == ListIndex(headers_from_sheet, canonical_h)
        IN IF sheet_col_index = -1 THEN ""
           ELSE IF sheet_col_index + 1 < Len(row) THEN row[sheet_col_index + 1]
           ELSE ""]

RowToPatient(headers_from_sheet, row) ==
    [canonical_h \in CanonicalKeys |->
        LET sheet_col_index == ListIndex(headers_from_sheet, canonical_h)
        IN IF sheet_col_index = -1 THEN ""
           ELSE IF sheet_col_index < Len(row) THEN row[sheet_col_index + 1]
           ELSE ""]

\* d.setdefault(k, v)
SetDefault(d, k, v) ==
    IF k \in DOMAIN d THEN d
    ELSE [x \in DOMAIN d \cup {k} |-> IF x = k THEN v ELSE d[x]]

\* The three setdefault calls of get_today_patients.
TodayDefaults(p) ==
    SetDefault(SetDefault(SetDefault(p, "Visit Count", "0"), "Patient ID", ""),
               "Patient_ID", "")

(***************************************************************************)
(* add_patient: the row built from the request body.                       *)
(***************************************************************************)
\* ", ".join([str(x).strip().capitalize() for x in raw_days if str(x).strip()])
RECURSIVE JoinDays(_)
JoinDays(raw_days) ==
    IF raw_days = <<>> THEN ""
    ELSE LET x == Strip(Head(raw_days))
             rest == JoinDays(Tail(raw_days))
         IN IF x = "" THEN rest
            ELSE IF rest = "" THEN Capitalize(x)
            ELSE Capitalize(x) \o ", " \o rest

VisitDaysStr(data) ==
    LET raw_days == OrEmpty(find_value_for_header(data, "Visit Days"))
    IN IF raw_days.t = "list" THEN JoinDays(raw_days.l) ELSE Strip(PyStr(raw_days))

\* str(standardized_data.get("Visit Count", "0")): the key is always there.
VisitCountStr(data) == PyStr(OrEmpty(find_value_for_header(data, "Visit Count")))

NewRow(data) ==
    [k \in 1..Len(CANONICAL_HEADERS) |->
        LET header == CANONICAL_HEADERS[k]
        IN CASE header = "Visit Days" -> VisitDaysStr(data)
             [] header = "Visit Count" -> VisitCountStr(data)
             [] OTHER -> PyStr(OrEmpty(find_value_for_header(data, header)))]

(***************************************************************************)
(* The remote sheet: a grid of cell strings, row 1 the header row.  The    *)
(* three calls app.py makes on it.                                         *)
(***************************************************************************)
\* values().get drops the empty cells at the end of a row.
RECURSIVE TrimRow(_)
TrimRow(row) ==
    IF row # <<>> /\ row[Len(row)] = "" THEN TrimRow(SubSeq(row, 1, Len(row) - 1))
    ELSE row

RemoteGet(grid) == [k \in 1..Len(grid) |-> TrimRow(grid[k])]

\* valueInputOption="USER_ENTERED": a cell typed as digits is stored as a
\* number and read back in its plain decimal form.
UserEntered(cell) == IF IsIntLiteral(cell) THEN IntToStr(StrToInt(cell)) ELSE cell

\* values().append: the row goes below the last row of the sheet.
RemoteAppend(grid, new_row) ==
    Append(grid, [k \in 1..Len(new_row) |-> UserEntered(new_row[k])])

\* The 0-based column an A1 column label names (A = 0, Z = 25, AA = 26).
RECURSIVE A1Value(_)
A1Value(label) ==
    IF label = "" THEN 0
    ELSE A1Value(SubSeq(label, 1, Len(label) - 1)) * 26
         + IndexIn(UpperLetters, Char(label, Len(label)))

A1Column(label) == A1Value(label) - 1

\* The cell a range "<sheet>!<letters><row>" names: its 1-based row and
\* 0-based column.
RangeCell(range) == [row |-> range.row, col |-> A1Column(range.letters)]

\* values().update of one cell; a short row is filled up to the cell.
RemoteUpdate(grid, range, value) ==
    LET cell == RangeCell(range)
        Widen(row) == [k \in 1..(IF Len(row) > cell.col THEN Len(row) ELSE cell.col + 1) |->
                          IF k <= Len(row) THEN row[k] ELSE ""]
    IN [k \in 1..(IF Len(grid) >= cell.row THEN Len(grid) ELSE cell.row) |->
           LET row == IF k <= Len(grid) THEN grid[k] ELSE <<>>
           IN IF k = cell.row
              THEN [Widen(row) EXCEPT ![cell.col + 1] = UserEntered(value)]
              ELSE row]

(***************************************************************************)
(* The sheets a behaviour starts from, and the requests it is sent.        *)
(***************************************************************************)
CanonicalRow(pid, name, days, count) ==
    <<pid, name, "", "", "", "", "", "", "", "", "", days, count>>

InitialSheets ==
    << \* no values at all
       <<>>,
       \* the header row alone
       <<CANONICAL_HEADERS>>,
       \* every canonical column; P1 is there twice, P2 is not there
       <<CANONICAL_HEADERS,
         CanonicalRow("P1", "Alice", "daily", "9"),
         CanonicalRow("P1", "Alia", "", "5")>>,
       \* four of the columns; a row that ends before the count
       << <<"Patient ID", "Name", "Visit Days", "Visit Count">>,
          <<"P1", "Alice", "Mon, Wed", "2">>,
          <<"P2", "Bob">> >>,
       \* the fallback spellings; an empty count inside a row; a count that
       \* is no number
       << <<"Patient_ID", "Visit_Count", "Name">>,
          <<"P1", "", "Alice">>,
          <<"P2", "x", "Bob">> >>,
       \* neither spelling of the required columns
       << <<"Name", "Visit Days">>,
          <<"Alice", "daily">> >> >>

AddPayloads ==
    << << <<"Patient ID", JStr("P4")>>, <<"name", JStr("Dora")>>,
          <<"Visit Days", JList(<<"mon", " wed ">>)>>, <<"Visit Count", JNum(0)>> >>,
       << <<"patient_id", JStr("P1")>>, <<"Name", JStr("Al")>>,
          <<"visit_days", JStr("daily")>>, <<"Visit_Count", JStr("7")>> >> >>

\* The attendance requests: the path id and the body.
AttendRequests ==
    << [patient_id |-> "P1", payload |-> << <<"action", JStr("confirm")>> >>],
       [patient_id |-> "P2", payload |-> << <<"action", JStr("Confirm")>> >>],
       [patient_id |-> "P1", payload |-> << <<"action", JStr("cancel")>> >>],
       [patient_id |-> "P2", payload |-> << >>] >>

\* Seconds between two readings of the clock: two of the first make an age
\* beyond CACHE_TTL, the second is an age of exactly CACHE_TTL.
Elapsed == {CACHE_TTL - 10, CACHE_TTL}

ReadKinds == {"get_patients", "get_today_patients", "index"}
JsonKinds == {"get_patients", "get_today_patients", "add_patient", "mark_attendance"}

(***************************************************************************)
(* State.                                                                  *)
(***************************************************************************)
VARIABLES
    sheet,              \* the remote sheet
    clock,              \* time.time() as last read
    today,              \* the weekday name of datetime.today(), lower case
    _last_cache_time,   \* module global
    _cached_patients,   \* module global: the list the name is bound to
    pc,                 \* per thread: where its handler stands
    req,                \* per thread: the request it serves
    frame,              \* per thread: the handler's local variables
    resp,               \* per thread: the response of its last request
    obs,                \* per thread: what its request has seen and done
    last_get,           \* the last GET /api/patients answered alone, no write since
    pending_add,        \* the row of the last successful add, no read since
    pending_att,        \* the cell of the last successful attendance, no read since
    nreq,               \* requests accepted so far
    col_input, col_index, letters, col_running,   \* a run of column_to_letter
    visit_tokens, today_full, match_running, match_returns  \* a call of matches_today

vars ==
    <<sheet, clock, today, _last_cache_time, _cached_patients, pc, req, frame,
      resp, obs, last_get, pending_add, pending_att, nreq,
      col_input, col_index, letters, col_running,
      visit_tokens, today_full, match_running, match_returns>>

colvars == <<col_input, col_index, letters, col_running>>
matchvars == <<visit_tokens, today_full, match_running, match_returns>>
appvars ==
    <<sheet, clock, today, _last_cache_time, _cached_patients, pc, req, frame,
      resp, obs, last_get, pending_add, pending_att, nreq>>

NoRequest == [id |-> 0, kind |-> "none", patient_id |-> "", payload |-> <<>>, input |-> 0]

NoFrame ==
    [now |-> 0, values |-> <<>>, i |-> 0,
     patients |-> [ref |-> "none", list |-> <<>>], today_patients |-> <<>>,
     row_idx |-> 0, visit_count_col |-> 0, current_count |-> 0, new_count |-> 0]

NoResponse ==
    [status |-> "", code |-> 0, message |-> "", body |-> <<>>, patient_id |-> "",
     new_count |-> 0, total_count |-> 0, today_count |-> 0]

\* What an attendance request found in the values it read.
NoSeen == [rows |-> 0, columns |-> FALSE, count_col |-> -1, match |-> 0, cell |-> <<>>]

NoObs ==
    [overlapped |-> FALSE, now |-> 0, before |-> <<>>, must_add |-> <<>>,
     must_att |-> <<>>, seen |-> NoSeen, effects |-> {}, writes |-> <<>>]

AppInit ==
    /\ \E k \in 1..Len(InitialSheets) : sheet = InitialSheets[k]
    /\ clock = CACHE_TTL + 1
    /\ today = "monday"
    /\ _last_cache_time = 0
    /\ _cached_patients = <<>>
    /\ pc = [p \in Threads |-> "idle"]
    /\ req = [p \in Threads |-> NoRequest]
    /\ frame = [p \in Threads |-> NoFrame]
    /\ resp = [p \in Threads |-> NoResponse]
    /\ obs = [p \in Threads |-> NoObs]
    /\ last_get = <<>>
    /\ pending_add = <<>>
    /\ pending_att = <<>>
    /\ nreq = 0

ColIdle ==
    /\ col_input = 0
    /\ col_index = 0
    /\ letters = ""
    /\ col_running = FALSE

\* No call of matches_today on its own is running.
MatchIdle ==
    /\ visit_tokens = <<>>
    /\ today_full = "monday"
    /\ match_running = FALSE
    /\ match_returns = FALSE

Init == AppInit /\ ColIdle /\ MatchIdle

(***************************************************************************)
(* Helpers of the handlers.                                                *)
(***************************************************************************)
Busy(q) == pc[q] \notin {"idle", "done"}

\* now - _last_cache_time > CACHE_TTL
IsStaleInclusive(now, last_cache_time) == now - last_cache_time >= CACHE_TTL

IsStale(now, last_cache_time) == now - last_cache_time > CACHE_TTL

\* The list a handler's local name `patients` refers to: the list the global
\* is bound to, or the list it was bound to when the handler took it.
PatientsList(p) ==
    IF frame[p].patients.ref = "global" THEN _cached_patients
    ELSE frame[p].patients.list

\* jsonify({"status": "error", "message": str(e)}), 500
ErrorResponseBadRequest(message) ==
    [NoResponse EXCEPT !.status = "error", !.code = 400, !.message = message]

ErrorResponse(message) ==
    [NoResponse EXCEPT !.status = "error", !.code = 500, !.message = message]

\* An exception no handler catches: Flask answers 500 with its own page.
UnhandledResponse == [NoResponse EXCEPT !.status = "unhandled", !.code = 500]

\* What the except clause of the request's handler answers, if it has one.
OnException(kind, message) ==
    IF kind \in JsonKinds THEN ErrorResponse(message) ELSE UnhandledResponse

\* payload.get("action", "")
PayloadActionDefaultConfirm(payload) == DictGet(payload, "action", JStr("confirm"))

PayloadAction(payload) == DictGet(payload, "action", JStr(""))

\* str(payload.get("action", "")).lower() != "confirm"
NotConfirm(payload) == Lower(PyStr(PayloadAction(payload))) # "confirm"

\* not values or len(values) < 2
NoDataOffByOne(values) == Len(values) <= 2

NoData(values) == Len(values) < 2

\* headers.index(primary), else headers.index(fallback), else None (-1)
FindColumnNoFallback(headers, primary, fallback) == ListIndex(headers, primary)

FindColumn(headers, primary, fallback) ==
    IF ListIndex(headers, primary) # -1 THEN ListIndex(headers, primary)
    ELSE ListIndex(headers, fallback)

\* str(row[pid_col]) if len(row) > pid_col else ""
CellOrEmpty(row, col) == IF Len(row) > col THEN row[col + 1] ELSE ""

\* The sheet row numbers (enumerate(data_rows, start=2)) whose Patient ID
\* cell is the id.
MatchingRows(values, pid_col, patient_id) ==
    {row_idx \in 2..Len(values) : CellOrEmpty(values[row_idx], pid_col) = patient_id}

\* The loop breaks at the first of them.
FirstOf(S) == CHOOSE x \in S : \A y \in S : x <= y

\* current_count + 1
NewCountTwice(current_count) == current_count + 2

NewCount(current_count) == current_count + 1

\* Lines 252-279 of mark_attendance, from the fetched values to the cell to
\* write: what the handler does next.
AttendPlan(values, patient_id) ==
    LET none == [do |-> "", row_idx |-> 0, visit_count_col |-> 0, current_count |-> 0]
    IN IF NoData(values) THEN [none EXCEPT !.do = "no data"]
       ELSE
       LET headers == values[1]
           pid_col == FindColumn(headers, "Patient ID", "Patient_ID")
           visit_count_col == FindColumn(headers, "Visit Count", "Visit_Count")
       IN IF pid_col = -1 \/ visit_count_col = -1 THEN [none EXCEPT !.do = "columns missing"]
          ELSE
          LET found == MatchingRows(values, pid_col, patient_id)
          IN IF found = {} THEN [none EXCEPT !.do = "not found"]
             ELSE
             LET row_idx == FirstOf(found)
                 row == values[row_idx]
                 text == IF Len(row) > visit_count_col
                         THEN (IF row[visit_count_col + 1] = "" THEN "0"
                               ELSE row[visit_count_col + 1])
                         ELSE "0"
             IN IF ~IsIntLiteral(text)
                THEN [none EXCEPT !.do = "ValueError", !.row_idx = row_idx,
                                  !.visit_count_col = visit_count_col]
                ELSE [do |-> "update", row_idx |-> row_idx,
                      visit_count_col |-> visit_count_col,
                      current_count |-> StrToInt(text)]

\* The response of mark_attendance where it answers without a write.
AttendAnswer(do, kind, patient_id) ==
    CASE do = "no data" ->
            [NoResponse EXCEPT !.status = "error", !.code = 404,
                               !.message = "No data in sheet"]
      [] do = "columns missing" ->
            [ErrorResponse("Required columns missing in sheet") EXCEPT !.code = 500]
      [] do = "not found" ->
            [NoResponse EXCEPT !.status = "not found", !.code = 404,
                               !.patient_id = patient_id]
      [] do = "ValueError" -> OnException(kind, "invalid literal for int()")
      [] OTHER -> NoResponse

\* The pure functions of the request bodies, worked out once for each of
\* the bodies a behaviour can send.
AddRows == [k \in 1..Len(AddPayloads) |-> NewRow(AddPayloads[k])]

AttendNotConfirm == [k \in 1..Len(AttendRequests) |-> NotConfirm(AttendRequests[k].payload)]

\* matches_today(parse_visit_days(p.get("Visit Days", ""))), worked out once
\* for each cell text of the initial sheets and the added rows.
KnownCells ==
    UNION {UNION {{InitialSheets[s][r][c] : c \in 1..Len(InitialSheets[s][r])} :
                     r \in 1..Len(InitialSheets[s])} : s \in 1..Len(InitialSheets)}
    \cup UNION {{AddRows[k][c] : c \in 1..Len(AddRows[k])} : k \in 1..Len(AddRows)}

KnownVisitsToday ==
    [cell \in KnownCells |->
        [day \in Weekdays |-> matches_today(parse_visit_days(cell), day)]]

VisitsToday(patient, day) ==
    LET cell == patient["Visit Days"]
    IN IF cell \in KnownCells THEN KnownVisitsToday[cell][day]
       ELSE matches_today(parse_visit_days(cell), day)

(***************************************************************************)
(* What the requests are observed to see and do.                           *)
(***************************************************************************)
\* What a request entering does to the observations of every thread.
ObsAtEntry(p, mine) ==
    [q \in Threads |->
        IF q = p THEN [mine EXCEPT !.overlapped = \E r \in Threads \ {p} : Busy(r)]
        ELSE IF Busy(q) THEN [obs[q] EXCEPT !.overlapped = TRUE]
        ELSE obs[q]]

Did(p, what) == obs' = [obs EXCEPT ![p].effects = @ \cup {what}]

\* The positions (1-based) of the header row that carry one of the names.
Positions(headers, name) == {k \in 1..Len(headers) : headers[k] = name}

\* The column (1-based) of a required header: its first spelling where the
\* header row has it, else its second; 0 where it has neither.
RequiredColumn(headers, primary, fallback) ==
    IF Positions(headers, primary) # {} THEN FirstOf(Positions(headers, primary))
    ELSE IF Positions(headers, fallback) # {} THEN FirstOf(Positions(headers, fallback))
    ELSE 0

\* The values an attendance request read, seen from its path id: how many
\* rows, whether the header row has both required columns, the 0-based
\* column of the count, the sheet row of the first data row with the id
\* (0: none), and that row's count cell (none: the row ends before it).
Seen(values, patient_id) ==
    IF values = <<>> THEN NoSeen
    ELSE
    LET id_at == RequiredColumn(values[1], "Patient ID", "Patient_ID")
        count_at == RequiredColumn(values[1], "Visit Count", "Visit_Count")
        with_id == {r \in 2..Len(values) :
                       /\ id_at # 0
                       /\ Len(values[r]) >= id_at
                       /\ values[r][id_at] = patient_id}
        \* a row that ends before the id column has the id ""
        without == {r \in 2..Len(values) :
                       id_at # 0 /\ Len(values[r]) < id_at /\ patient_id = ""}
        rows == with_id \cup without
        match == IF rows = {} THEN 0 ELSE FirstOf(rows)
    IN [rows |-> Len(values),
        columns |-> id_at # 0 /\ count_at # 0,
        count_col |-> count_at - 1,
        match |-> match,
        cell |-> IF match # 0 /\ count_at # 0 /\ Len(values[match]) >= count_at
                 THEN <<values[match][count_at]>> ELSE <<>>]

\* The next request goes to a thread that is free: the first of them, the
\* threads being alike.
Accept(p, kind, patient_id, payload, input) ==
    /\ ~Busy(p)
    /\ \A q \in Threads : ~Busy(q) => p <= q
    /\ nreq < MaxRequests
    /\ nreq' = nreq + 1
    /\ req' = [req EXCEPT ![p] = [id |-> nreq + 1, kind |-> kind, patient_id |-> patient_id,
                                  payload |-> payload, input |-> input]]

\* The handler returns: its locals are gone.
Return(p) ==
    /\ pc' = [pc EXCEPT ![p] = "done"]
    /\ frame' = [frame EXCEPT ![p] = NoFrame]

\* A remote call raises: the except clause answers, nothing else is touched.
RaiseInvalidating(p) ==
    /\ Did(p, "remote_fault")
    /\ resp' = [resp EXCEPT ![p] = OnException(req[p].kind, "remote store")]
    /\ Return(p)
    /\ _last_cache_time' = 0
    /\ UNCHANGED <<sheet, clock, today, _cached_patients, req,
                   last_get, pending_add, pending_att, nreq, colvars, matchvars>>

Raise(p) ==
    /\ Did(p, "remote_fault")
    /\ resp' = [resp EXCEPT ![p] = OnException(req[p].kind, "remote store")]
    /\ Return(p)
    /\ UNCHANGED <<sheet, clock, today, _last_cache_time, _cached_patients, req,
                   last_get, pending_add, pending_att, nreq, colvars, matchvars>>

(***************************************************************************)
(* The read routes: GET /api/patients, GET /api/patients/today, GET /.     *)
(***************************************************************************)
\* The request arrives `elapsed` seconds after the clock was last read;
\* get_cached_patients, lines 83-84: read the clock, test the age.
EnterRead(p, kind, elapsed) ==
    /\ Accept(p, kind, "", <<>>, 0)
    /\ resp' = [resp EXCEPT ![p] = NoResponse]
    /\ clock' = clock + elapsed
    /\ frame' = [frame EXCEPT ![p] = [NoFrame EXCEPT !.now = clock']]
    /\ pc' = [pc EXCEPT ![p] = IF IsStale(clock', _last_cache_time) THEN "fetch" ELSE "return"]
    /\ obs' = ObsAtEntry(p, [NoObs EXCEPT !.now = clock',
                                          !.before = last_get,
                                          !.must_add = pending_add,
                                          !.must_att = pending_att])
    /\ pending_add' = <<>>
    /\ pending_att' = <<>>
    /\ UNCHANGED <<sheet, today, _last_cache_time, _cached_patients, last_get, colvars, matchvars>>

get_patients(p, elapsed) == EnterRead(p, "get_patients", elapsed)

get_today_patients(p, elapsed) == EnterRead(p, "get_today_patients", elapsed)

index(p, elapsed) == EnterRead(p, "index", elapsed)

\* lines 86-90: the remote read.
CacheFetch(p) ==
    /\ pc[p] = "fetch"
    /\ frame' = [frame EXCEPT ![p].values = RemoteGet(sheet)]
    /\ Did(p, "remote_get")
    /\ pc' = [pc EXCEPT ![p] = "rebind"]
    /\ UNCHANGED <<sheet, clock, today, _last_cache_time, _cached_patients, req, resp,
                   last_get, pending_add, pending_att, nreq, colvars, matchvars>>

\* The remote read raises; the globals are as they were.
CacheFetchFails(p) ==
    /\ pc[p] = "fetch"
    /\ Raise(p)

\* lines 93 and 97: _cached_patients = [].  The global is bound to a new
\* list; a handler that holds the old list keeps it.
CacheRebind(p) ==
    /\ pc[p] = "rebind"
    /\ _cached_patients' = <<>>
    /\ frame' = [q \in Threads |->
                    IF q = p THEN [frame[q] EXCEPT !.i = 1]
                    ELSE IF frame[q].patients.ref = "global"
                         THEN [frame[q] EXCEPT !.patients =
                                  [ref |-> "own", list |-> _cached_patients]]
                         ELSE frame[q]]
    /\ Did(p, "cache_write")
    /\ pc' = [pc EXCEPT ![p] = IF Len(frame[p].values) >= 2 THEN "append" ELSE "stamp"]
    /\ UNCHANGED <<sheet, clock, today, _last_cache_time, req, resp,
                   last_get, pending_add, pending_att, nreq, colvars, matchvars>>

\* lines 99-111: one data row; the dict is appended to the list the global
\* is bound to now.
CacheAppend(p) ==
    /\ pc[p] = "append"
    /\ LET values == frame[p].values
           row == values[frame[p].i + 1]
       IN /\ _cached_patients' = Append(_cached_patients, RowToPatient(values[1], row))
          /\ pc' = [pc EXCEPT ![p] = IF frame[p].i + 1 >= Len(values) THEN "stamp" ELSE "append"]
    /\ frame' = [frame EXCEPT ![p].i = @ + 1]
    /\ UNCHANGED <<sheet, clock, today, _last_cache_time, req, resp, obs,
                   last_get, pending_add, pending_att, nreq, colvars, matchvars>>

\* line 113: _last_cache_time = now
CacheStamp(p) ==
    /\ pc[p] = "stamp"
    /\ _last_cache_time' = frame[p].now
    /\ Did(p, "time_write")
    /\ pc' = [pc EXCEPT ![p] = "return"]
    /\ UNCHANGED <<sheet, clock, today, _cached_patients, req, frame, resp,
                   last_get, pending_add, pending_att, nreq, colvars, matchvars>>

\* line 114, return _cached_patients, and get_patients, line 175:
\* jsonify(patients).
Jsonify(p) ==
    /\ pc[p] = "return"
    /\ req[p].kind = "get_patients"
    /\ resp' = [resp EXCEPT ![p] =
                   [NoResponse EXCEPT !.status = "ok", !.code = 200, !.body = _cached_patients]]
    /\ last_get' = IF obs[p].overlapped THEN last_get
                   ELSE <<[now |-> frame[p].now,
                           fetched |-> "remote_get" \in obs[p].effects,
                           body |-> _cached_patients]>>
    /\ Return(p)
    /\ UNCHANGED <<sheet, clock, today, _last_cache_time, _cached_patients, req,
                   obs, pending_add, pending_att, nreq, colvars, matchvars>>

\* line 114 and get_today_patients, line 183: patients is the list the
\* global is bound to.
TodayPatients(p) ==
    /\ pc[p] = "return"
    /\ req[p].kind = "get_today_patients"
    /\ frame' = [frame EXCEPT ![p].patients = [ref |-> "global", list |-> <<>>],
                              ![p].i = 1]
    /\ pc' = [pc EXCEPT ![p] = "today"]
    /\ UNCHANGED <<sheet, clock, today, _last_cache_time, _cached_patients, req, resp,
                   obs, last_get, pending_add, pending_att, nreq, colvars, matchvars>>

\* get_today_patients, lines 185-191: one turn of the loop over patients.
\* The dict is the one in the list: setdefault changes it in place.
TodayVisit(p) ==
    /\ pc[p] = "today"
    /\ frame[p].i <= Len(PatientsList(p))
    /\ LET i == frame[p].i
           patient == PatientsList(p)[i]
           hit == VisitsToday(patient, today)
       IN IF hit
          THEN /\ IF frame[p].patients.ref = "global"
                  THEN /\ _cached_patients' =
                              [_cached_patients EXCEPT ![i] = TodayDefaults(patient)]
                       /\ frame' = [frame EXCEPT ![p].i = i + 1,
                                                 ![p].today_patients = Append(@, i)]
                  ELSE /\ frame' = [frame EXCEPT ![p].i = i + 1,
                                                 ![p].today_patients = Append(@, i),
                                                 ![p].patients.list[i] = TodayDefaults(patient)]
                       /\ UNCHANGED _cached_patients
               /\ Did(p, "record_write")
          ELSE /\ frame' = [frame EXCEPT ![p].i = i + 1]
               /\ UNCHANGED <<_cached_patients, obs>>
    /\ UNCHANGED <<sheet, clock, today, _last_cache_time, pc, req, resp,
                   last_get, pending_add, pending_att, nreq, colvars, matchvars>>

\* line 192: jsonify(today_patients)
TodayJsonify(p) ==
    /\ pc[p] = "today"
    /\ frame[p].i > Len(PatientsList(p))
    /\ resp' = [resp EXCEPT ![p] =
                   [NoResponse EXCEPT
                       !.status = "ok", !.code = 200,
                       !.body = [k \in 1..Len(frame[p].today_patients) |->
                                    PatientsList(p)[frame[p].today_patients[k]]]]]
    /\ Return(p)
    /\ UNCHANGED <<sheet, clock, today, _last_cache_time, _cached_patients, req,
                   obs, last_get, pending_add, pending_att, nreq, colvars, matchvars>>

\* line 114 and index, lines 300-304: the two counts of the home page.
Render(p) ==
    /\ pc[p] = "return"
    /\ req[p].kind = "index"
    /\ LET patients == _cached_patients
           today_patients ==
               {k \in 1..Len(patients) : VisitsToday(patients[k], today)}
       IN resp' = [resp EXCEPT ![p] =
                      [NoResponse EXCEPT !.status = "page", !.code = 200,
                                         !.total_count = Len(patients),
                                         !.today_count = Cardinality(today_patients)]]
    /\ Return(p)
    /\ UNCHANGED <<sheet, clock, today, _last_cache_time, _cached_patients, req,
                   obs, last_get, pending_add, pending_att, nreq, colvars, matchvars>>

(***************************************************************************)
(* POST /api/patients                                                      *)
(***************************************************************************)
add_patient(p, k) ==
    /\ Accept(p, "add_patient", "", AddPayloads[k], k)
    /\ pc' = [pc EXCEPT ![p] = "add_append"]
    /\ resp' = [resp EXCEPT ![p] = NoResponse]
    /\ frame' = [frame EXCEPT ![p] = NoFrame]
    /\ obs' = ObsAtEntry(p, NoObs)
    /\ last_get' = <<>>
    /\ UNCHANGED <<sheet, clock, today, _last_cache_time, _cached_patients,
                   pending_add, pending_att, colvars, matchvars>>

\* lines 200-231: build the row, append it to the sheet.
AddAppend(p) ==
    /\ pc[p] = "add_append"
    /\ sheet' = RemoteAppend(sheet, AddRows[req[p].input])
    /\ Did(p, "remote_append")
    /\ pc' = [pc EXCEPT ![p] = "add_invalidate"]
    /\ UNCHANGED <<clock, today, _last_cache_time, _cached_patients, req, frame, resp,
                   last_get, pending_add, pending_att, nreq, colvars, matchvars>>

AddAppendFails(p) ==
    /\ pc[p] = "add_append"
    /\ Raise(p)

\* lines 233-236: _last_cache_time = 0, then the 201.
AddInvalidate(p) ==
    /\ pc[p] = "add_invalidate"
    /\ _last_cache_time' = 0
    /\ Did(p, "time_write")
    /\ resp' = [resp EXCEPT ![p] = [NoResponse EXCEPT !.status = "success", !.code = 201]]
    /\ pending_add' = <<RemoteGet(RemoteAppend(<<>>, AddRows[req[p].input]))[1]>>
    /\ Return(p)
    /\ UNCHANGED <<sheet, clock, today, _cached_patients, req,
                   last_get, pending_att, nreq, colvars, matchvars>>

(***************************************************************************)
(* PUT /api/patients/<patient_id>/attend                                   *)
(***************************************************************************)
\* lines 246-248: anything but "confirm" is answered at once.
mark_attendance(p, k) ==
    /\ Accept(p, "mark_attendance", AttendRequests[k].patient_id, AttendRequests[k].payload, k)
    /\ frame' = [frame EXCEPT ![p] = NoFrame]
    /\ obs' = ObsAtEntry(p, NoObs)
    /\ IF AttendNotConfirm[k]
       THEN /\ pc' = [pc EXCEPT ![p] = "done"]
            /\ resp' = [resp EXCEPT ![p] =
                           [NoResponse EXCEPT !.status = "ignored", !.code = 200,
                                              !.message = "action not confirm"]]
            /\ UNCHANGED last_get
       ELSE /\ pc' = [pc EXCEPT ![p] = "att_get"]
            /\ resp' = [resp EXCEPT ![p] = NoResponse]
            /\ last_get' = <<>>
    /\ UNCHANGED <<sheet, clock, today, _last_cache_time, _cached_patients,
                   pending_add, pending_att, colvars, matchvars>>

\* lines 250-279 and 290-293: read the sheet, find the columns and the row.
AttGet(p) ==
    /\ pc[p] = "att_get"
    /\ LET values == RemoteGet(sheet)
           plan == AttendPlan(values, req[p].patient_id)
       IN /\ IF plan.do = "update"
             THEN /\ frame' = [frame EXCEPT ![p].values = values,
                                            ![p].row_idx = plan.row_idx,
                                            ![p].visit_count_col = plan.visit_count_col,
                                            ![p].current_count = plan.current_count,
                                            ![p].new_count = NewCount(plan.current_count)]
                  /\ pc' = [pc EXCEPT ![p] = "att_update"]
                  /\ UNCHANGED resp
             ELSE /\ Return(p)
                  /\ resp' = [resp EXCEPT ![p] =
                                 AttendAnswer(plan.do, req[p].kind, req[p].patient_id)]
          /\ obs' = [obs EXCEPT ![p].effects = @ \cup {"remote_get"},
                                ![p].seen = Seen(values, req[p].patient_id)]
    /\ UNCHANGED <<sheet, clock, today, _last_cache_time, _cached_patients, req,
                   last_get, pending_add, pending_att, nreq, colvars, matchvars>>

AttGetFails(p) ==
    /\ pc[p] = "att_get"
    /\ Raise(p)

\* lines 279-291: write the cell, answer "updated".
AttUpdate(p) ==
    /\ pc[p] = "att_update"
    /\ LET range_to_update == [letters |-> column_to_letter(frame[p].visit_count_col),
                               row |-> frame[p].row_idx]
           value == IntToStr(frame[p].new_count)
           cell == RangeCell(range_to_update)
           written == [row |-> cell.row, col |-> cell.col, value |-> value]
       IN /\ sheet' = RemoteUpdate(sheet, range_to_update, value)
          /\ obs' = [obs EXCEPT ![p].effects = @ \cup {"remote_update"},
                                ![p].writes = Append(@, written)]
          /\ pending_att' = <<written>>
    /\ resp' = [resp EXCEPT ![p] =
                   [NoResponse EXCEPT !.status = "updated", !.code = 200,
                                      !.patient_id = req[p].patient_id,
                                      !.new_count = frame[p].new_count]]
    /\ Return(p)
    /\ UNCHANGED <<clock, today, _last_cache_time, _cached_patients, req,
                   last_get, pending_add, nreq, colvars, matchvars>>

AttUpdateFails(p) ==
    /\ pc[p] = "att_update"
    /\ Raise(p)

Next ==
    \E p \in Threads :
        \/ \E elapsed \in Elapsed : get_patients(p, elapsed)
        \/ \E elapsed \in Elapsed : get_today_patients(p, elapsed)
        \/ \E elapsed \in Elapsed : index(p, elapsed)
        \/ CacheFetch(p)
        \/ CacheFetchFails(p)
        \/ CacheRebind(p)
        \/ CacheAppend(p)
        \/ CacheStamp(p)
        \/ Jsonify(p)
        \/ TodayPatients(p)
        \/ TodayVisit(p)
        \/ TodayJsonify(p)
        \/ Render(p)
        \/ \E k \in 1..Len(AddPayloads) : add_patient(p, k)
        \/ AddAppend(p)
        \/ AddAppendFails(p)
        \/ AddInvalidate(p)
        \/ \E k \in 1..Len(AttendRequests) : mark_attendance(p, k)
        \/ AttGet(p)
        \/ AttGetFails(p)
        \/ AttUpdate(p)
        \/ AttUpdateFails(p)

Spec == Init /\ [][Next]_vars

\* The service under GET /api/patients alone: the sheet stays as it is and
\* the remote read answers, so every fetch returns the same values.
RefreshNext ==
    \E p \in Threads :
        \/ \E elapsed \in Elapsed : get_patients(p, elapsed)
        \/ CacheFetch(p)
        \/ CacheRebind(p)
        \/ CacheAppend(p)
        \/ CacheStamp(p)
        \/ Jsonify(p)

RefreshSpec == Init /\ [][RefreshNext]_vars

\* The service under GET /api/patients and POST /api/patients alone.
AddReadNext ==
    \E p \in Threads :
        \/ \E elapsed \in Elapsed : get_patients(p, elapsed)
        \/ CacheFetch(p)
        \/ CacheFetchFails(p)
        \/ CacheRebind(p)
        \/ CacheAppend(p)
        \/ CacheStamp(p)
        \/ Jsonify(p)
        \/ \E k \in 1..Len(AddPayloads) : add_patient(p, k)
        \/ AddAppend(p)
        \/ AddAppendFails(p)
        \/ AddInvalidate(p)

AddReadSpec == Init /\ [][AddReadNext]_vars

(***************************************************************************)
(* Properties.                                                             *)
(***************************************************************************)
Done(p) == pc[p] = "done"

Served(p, kind) == Done(p) /\ req[p].kind = kind

Fetched(p) == "remote_get" \in obs[p].effects

\* A record cut down to the thirteen canonical keys.
Canonical(record) == [k \in CanonicalKeys |-> record[k]]

CanonicalBody(body) == [k \in 1..Len(body) |-> Canonical(body[k])]

\* The header row of the sheet is the canonical one.
CanonicalSheet == sheet # <<>> /\ sheet[1] = CANONICAL_HEADERS

\* The count a count cell stands for: 0 where the cell is missing or empty.
CountOf(cell) ==
    IF cell = <<>> \/ cell[1] = "" THEN 0
    ELSE IF IsIntLiteral(cell[1]) THEN StrToInt(cell[1])
    ELSE 0

\* A GET /api/patients answered with no other request in progress during
\* it, begun at most CACHE_TTL after the one before it, itself answered
\* alone, and with no add and no confirmed attend begun since that one.
SecondCall(p) ==
    /\ Served(p, "get_patients")
    /\ resp[p].status = "ok"
    /\ ~obs[p].overlapped
    /\ obs[p].before # <<>>
    /\ obs[p].now - obs[p].before[1].now <= CACHE_TTL

SameAsFirst(p) ==
    /\ ~Fetched(p)
    /\ CanonicalBody(resp[p].body) = CanonicalBody(obs[p].before[1].body)

NextReadAfterAdd(p) ==
    /\ Served(p, "get_patients")
    /\ resp[p].status = "ok"
    /\ ~obs[p].overlapped
    /\ obs[p].must_add # <<>>
    /\ CanonicalSheet

\* C2: the first GET /api/patients after a successful add makes a remote
\* fetch and returns the record of the appended row.
C2_WriteThenRead ==
    \A p \in Threads :
        NextReadAfterAdd(p) =>
            /\ Fetched(p)
            /\ \E k \in 1..Len(resp[p].body) :
                  Canonical(resp[p].body[k])
                      = RowToPatient(CANONICAL_HEADERS, obs[p].must_add[1])

\* The first GET /api/patients begun after an attendance answered
\* "updated", with no other request in progress during it, on a sheet with
\* the canonical header row.
NextReadAfterAttend(p) ==
    /\ Served(p, "get_patients")
    /\ resp[p].status = "ok"
    /\ ~obs[p].overlapped
    /\ obs[p].must_att # <<>>
    /\ CanonicalSheet

\* C3: the first GET /api/patients after a successful attendance makes a
\* remote fetch and returns the incremented Visit Count for the row.
C3_AttendThenRead ==
    \A p \in Threads :
        NextReadAfterAttend(p) =>
            /\ Fetched(p)
            /\ Len(resp[p].body) >= obs[p].must_att[1].row - 1
            /\ resp[p].body[obs[p].must_att[1].row - 1]["Visit Count"]
                  = obs[p].must_att[1].value

\* C4: every record of the cache and every record GET /api/patients
\* returns has the thirteen canonical keys and no other.
C4_CanonicalKeys ==
    /\ \A k \in 1..Len(_cached_patients) : DOMAIN _cached_patients[k] = CanonicalKeys
    /\ \A p \in Threads :
          (Served(p, "get_patients") /\ resp[p].status = "ok") =>
              \A k \in 1..Len(resp[p].body) : DOMAIN resp[p].body[k] = CanonicalKeys

\* A confirmed attendance that read a sheet with both required columns and
\* a data row with the path id, and met no remote fault.
AttendOnMatch(p) ==
    /\ Served(p, "mark_attendance")
    /\ Fetched(p)
    /\ "remote_fault" \notin obs[p].effects
    /\ obs[p].seen.columns
    /\ obs[p].seen.match # 0

\* C5: such an attendance makes one cell write, to the Visit Count column
\* of the first row with the id, of the row's count plus one in decimal,
\* and answers "updated" with that count.
C5_FirstMatchIncrement ==
    \A p \in Threads :
        AttendOnMatch(p) =>
            /\ resp[p].status = "updated"
            /\ resp[p].new_count = CountOf(obs[p].seen.cell) + 1
            /\ obs[p].writes =
                  <<[row |-> obs[p].seen.match, col |-> obs[p].seen.count_col,
                     value |-> IntToStr(CountOf(obs[p].seen.cell) + 1)]>>

\* The attendance bodies whose action, in lower case, is not "confirm":
\* the absent action is the empty text.
NotConfirmInputs ==
    {k \in 1..Len(AttendRequests) :
        LET payload == AttendRequests[k].payload
            action == IF HasKey(payload, "action")
                      THEN PyStr(DictGet(payload, "action", JStr(""))) ELSE ""
        IN Lower(action) # "confirm"}

\* C6: an attendance whose action is not "confirm" is answered "ignored"
\* and has made no remote read, no remote write and no write to the cache
\* or its time.
C6_IgnoredTouchesNothing ==
    \A p \in Threads :
        (Served(p, "mark_attendance") /\ req[p].input \in NotConfirmInputs) =>
            /\ resp[p].status = "ignored"
            /\ obs[p].effects = {}
            /\ obs[p].writes = <<>>

C6_Witness ==
    \E p \in Threads :
        /\ Served(p, "mark_attendance")
        /\ req[p].input \in NotConfirmInputs
        /\ ~HasKey(req[p].payload, "action")
        /\ resp[p].status = "ignored"
        /\ _cached_patients # <<>>

\* A confirmed attendance that read a header row with both required
\* columns and no data row with the path id, and met no remote fault.
AttendNoMatch(p) ==
    /\ Served(p, "mark_attendance")
    /\ Fetched(p)
    /\ obs[p].seen.columns
    /\ obs[p].seen.match = 0

NotFound(p) ==
    /\ resp[p].status = "not found"
    /\ resp[p].patient_id = req[p].patient_id
    /\ obs[p].writes = <<>>

\* C7, as stated: such an attendance answers "not found" with the path id
\* and writes nothing, also where the sheet has no data row.
C7_NoMatchNotFound == \A p \in Threads : AttendNoMatch(p) => NotFound(p)

\* C7, amended: it does so where the sheet has a data row; where it has
\* none the answer is the error "No data in sheet" with code 404, and
\* nothing is written either.
C7_NoMatchNotFoundOrNoData ==
    \A p \in Threads :
        AttendNoMatch(p) =>
            IF obs[p].seen.rows >= 2 THEN NotFound(p)
            ELSE /\ resp[p].status = "error"
                 /\ resp[p].code = 404
                 /\ resp[p].message = "No data in sheet"
                 /\ obs[p].writes = <<>>

C7_Witness ==
    \E p \in Threads :
        /\ AttendNoMatch(p)
        /\ obs[p].seen.rows = 2
        /\ NotFound(p)

ServerError(code) == code >= 500 /\ code <= 599

\* C8, as stated: a response of a JSON endpoint with status "error" has a
\* 5xx code, and a remote fault met by a JSON endpoint is answered so.
C8_ErrorsAreServerErrors ==
    \A p \in Threads :
        (Done(p) /\ req[p].kind \in JsonKinds) =>
            /\ resp[p].status = "error" => ServerError(resp[p].code)
            /\ "remote_fault" \in obs[p].effects =>
                  resp[p].status = "error" /\ ServerError(resp[p].code)

\* C8, amended: the code is 500, but for the attendance that read fewer
\* than two rows: "No data in sheet" has code 404.  A remote fault met by
\* a JSON endpoint is answered with status "error" and code 500.
C8_ErrorsAre500OrNoData ==
    \A p \in Threads :
        (Done(p) /\ req[p].kind \in JsonKinds) =>
            /\ resp[p].status = "error" =>
                  \/ resp[p].code = 500
                  \/ /\ resp[p].code = 404
                     /\ resp[p].message = "No data in sheet"
                     /\ req[p].kind = "mark_attendance"
                     /\ obs[p].seen.rows < 2
            /\ "remote_fault" \in obs[p].effects =>
                  resp[p].status = "error" /\ resp[p].code = 500

C8_Witness ==
    \E p, q \in Threads :
        /\ Served(p, "mark_attendance")
        /\ "remote_fault" \in obs[p].effects
        /\ resp[p].status = "error"
        /\ Served(q, "mark_attendance")
        /\ resp[q].code = 404
        /\ resp[q].status = "error"

\* Both threads have answered "updated" to an attendance for the same id
\* that read the same row with the same count cell.
BothReadSame ==
    /\ \A p \in Threads : Served(p, "mark_attendance") /\ resp[p].status = "updated"
    /\ req[1].patient_id = req[2].patient_id
    /\ obs[1].seen.match = obs[2].seen.match
    /\ obs[1].seen.cell = obs[2].seen.cell

\* C9: two attendances for one patient that both read the count n both
\* write n + 1 and both answer n + 1, and n + 1 is what the sheet holds.
C9_LostIncrement ==
    BothReadSame =>
        LET n == CountOf(obs[1].seen.cell)
            row == obs[1].seen.match
            col == obs[1].seen.count_col
        IN /\ \A p \in Threads :
                 /\ resp[p].new_count = n + 1
                 /\ obs[p].writes = <<[row |-> row, col |-> col, value |-> IntToStr(n + 1)]>>
           /\ sheet[row][col + 1] = IntToStr(n + 1)

C9_Witness ==
    /\ BothReadSame
    /\ \A p \in Threads : obs[p].overlapped
    /\ obs[1].seen.cell = <<"9">>
    /\ \A p \in Threads : resp[p].new_count = 10
    /\ sheet[obs[1].seen.match][obs[1].seen.count_col + 1] = "10"

\* The record of one data row under a header row: for each canonical key
\* the cell below the first header cell of that name, the empty text where
\* the header row has no such cell or the row ends before it.
RecordOf(headers, row) ==
    [h \in CanonicalKeys |->
        IF \E k \in 1..Len(headers) : headers[k] = h
        THEN LET at == FirstOf(Positions(headers, h))
             IN IF at <= Len(row) THEN row[at] ELSE ""
        ELSE ""]

\* One record for each data row of the values, in the order of the rows.
Normalized(values) ==
    IF values = <<>> THEN <<>>
    ELSE [k \in 1..(Len(values) - 1) |-> RecordOf(values[1], values[k + 1])]

\* A call of get_cached_patients that has refreshed the cache and is about
\* to return, no other request having been in progress during it.
RefreshedAlone(p) ==
    /\ pc[p] = "return"
    /\ Fetched(p)
    /\ ~obs[p].overlapped

\* C11: a refresh leaves one record for each data row it fetched, in row
\* order, each canonical key read at the place of its header, empty where
\* the header is absent or the row is too short; no values, no records.
C11_RefreshNormalizes ==
    \A p \in Threads : RefreshedAlone(p) => _cached_patients = Normalized(frame[p].values)

C11_Witness ==
    \E p \in Threads :
        /\ RefreshedAlone(p)
        /\ Len(frame[p].values) = 3
        /\ Len(frame[p].values[3]) < Len(frame[p].values[1])
        /\ _cached_patients[1]["Visit Count"] = "2"
        /\ _cached_patients[2]["Name"] = "Bob"
        /\ _cached_patients[2]["Visit Count"] = ""
        /\ _cached_patients[2]["Age"] = ""

\* C12: under get_patients calls alone, with the sheet unchanged, every
\* body returned by a call that fetched, and the snapshot left once no call
\* is in progress, is the normalization of the one sheet: one record per
\* data row, none duplicated, missing or mixed in.
C12_ConcurrentRefreshesConsistent ==
    /\ \A p \in Threads :
           Served(p, "get_patients") /\ Fetched(p)
               => resp[p].body = Normalized(RemoteGet(sheet))
    /\ ((\A p \in Threads : ~Busy(p)) /\ (\E p \in Threads : Done(p) /\ Fetched(p)))
           => _cached_patients = Normalized(RemoteGet(sheet))

\* The count cell of the matching row is missing (the row ends before the
\* column), empty, or not a decimal integer.
Uncounted(cell) == cell = <<>> \/ cell[1] = "" \/ ~IsIntLiteral(cell[1])

\* C13: a confirmed attendance that found its row with such a count cell
\* takes the count as 0: it writes "1" to the cell and answers "updated"
\* with new_count 1.
C13_UncountedCellIsZero ==
    \A p \in Threads :
        AttendOnMatch(p) /\ Uncounted(obs[p].seen.cell) =>
            /\ resp[p].status = "updated"
            /\ resp[p].new_count = 1
            /\ obs[p].writes =
                  <<[row |-> obs[p].seen.match, col |-> obs[p].seen.count_col,
                     value |-> "1"]>>

\* Whether the Visit Count cell (the 13th, in canonical order) of the row
\* add_patient builds from each request body is a run of decimal digits.
AddCountIsDigits == [k \in 1..Len(AddPayloads) |-> IsIntLiteral(AddRows[k][13])]

\* C14: every row POST /api/patients has appended carries a Visit Count
\* cell that is a decimal-digit string, the body's count 0 included.
C14_AppendedCountIsDigits ==
    \A p \in Threads :
        (req[p].kind = "add_patient" /\ "remote_append" \in obs[p].effects)
            => AddCountIsDigits[req[p].input]

\* A confirmed attendance that read the sheet.
AttendFetched(p) == Served(p, "mark_attendance") /\ Fetched(p)

\* The header row it read has neither spelling of a required column.
LacksRequired(p) == obs[p].seen.rows >= 1 /\ ~obs[p].seen.columns

\* C15: a confirmed attendance whose header row lacks both spellings of a
\* required column is answered "error" and writes nothing; one whose header
\* row has a spelling of each, and a data row, is not answered "Required
\* columns missing in sheet"; and a write goes to the column of the first
\* spelling present, the second where the first is absent.
C15_MissingColumnsError ==
    \A p \in Threads :
        AttendFetched(p) =>
            /\ LacksRequired(p) => (resp[p].status = "error" /\ obs[p].writes = <<>>)
            /\ (obs[p].seen.columns /\ obs[p].seen.rows >= 2)
                   => resp[p].message # "Required columns missing in sheet"
            /\ resp[p].status = "updated" =>
                   /\ Len(obs[p].writes) = 1
                   /\ obs[p].writes[1].row = obs[p].seen.match
                   /\ obs[p].writes[1].col = obs[p].seen.count_col

C15_Witness ==
    \E p \in Threads :
        /\ AttendFetched(p)
        /\ LacksRequired(p)
        /\ obs[p].seen.rows >= 2
        /\ resp[p].status = "error"
        /\ resp[p].code = 500
        /\ resp[p].message = "Required columns missing in sheet"
        /\ obs[p].writes = <<>>

\* No request is in progress and the snapshot is at most CACHE_TTL old.
QuietAndFresh ==
    /\ \A p \in Threads : ~Busy(p)
    /\ ~IsStale(clock, _last_cache_time)

\* C17: under get_patients and add_patient requests, whenever no request
\* is in progress and the cache is fresh, the snapshot has a record of the
\* row of the last add_patient that returned success (sheets with the
\* canonical header row, where the record of a row is known).
C17_FreshCacheHasAddedRows ==
    (QuietAndFresh /\ CanonicalSheet /\ pending_add # <<>>) =>
        \E k \in 1..Len(_cached_patients) :
            Canonical(_cached_patients[k]) = RowToPatient(CANONICAL_HEADERS, pending_add[1])

\* The step leaves the snapshot, its time and the sheet as they were.
CacheKept == UNCHANGED <<_cached_patients, _last_cache_time, sheet>>

\* C18: a remote read that fails during a refresh leaves the snapshot and
\* the refresh time as they were, the request is answered with an error,
\* and (no other request being in progress during it) the cache is still
\* stale for any later reading of the clock, so the next read fetches; a
\* remote append that fails in add_patient leaves the refresh time as it
\* was and is answered with an error, not with success.
C18_FailureChangesNothing ==
    [][\A p \in Threads :
          /\ CacheFetchFails(p) =>
                /\ CacheKept
                /\ resp'[p].code = 500
                /\ ~obs[p].overlapped =>
                       \A elapsed \in Elapsed : IsStale(clock' + elapsed, _last_cache_time')
          /\ AddAppendFails(p) =>
                /\ CacheKept
                /\ resp'[p].status = "error"
                /\ resp'[p].code = 500]_vars

C18_Witness ==
    \E p \in Threads :
        /\ Served(p, "get_patients")
        /\ "remote_fault" \in obs[p].effects
        /\ resp[p].status = "error"
        /\ resp[p].code = 500
        /\ _last_cache_time # 0
        /\ _cached_patients # <<>>
        /\ IsStale(clock, _last_cache_time)

\* The Visit Count cell of a sheet row: none where the header row has no
\* such column or the row ends before it.
CountCell(grid, r) ==
    LET count_at == RequiredColumn(grid[1], "Visit Count", "Visit_Count")
    IN IF count_at # 0 /\ Len(grid[r]) >= count_at THEN <<grid[r][count_at]>> ELSE <<>>

\* The cells of a sheet row other than its Visit Count cell.
OtherCells(grid, r) ==
    LET count_at == RequiredColumn(grid[1], "Visit Count", "Visit_Count")
    IN [c \in (1..Len(grid[r])) \ {count_at} |-> grid[r][c]]

\* C19: no step lowers the Visit Count stored for a data row, removes a
\* row, or changes a cell of an existing row other than its Visit Count.
C19_CountsNeverDecrease ==
    [][/\ Len(sheet') >= Len(sheet)
       /\ \A r \in 1..Len(sheet) :
              \A c \in DOMAIN OtherCells(sheet, r) :
                  OtherCells(sheet', r)[c] = OtherCells(sheet, r)[c]
       /\ \A r \in 2..Len(sheet) :
              CountOf(CountCell(sheet', r)) >= CountOf(CountCell(sheet, r))]_vars

(***************************************************************************)
(* column_to_letter, one turn of its loop at a time.                       *)
(***************************************************************************)
ColInit ==
    /\ sheet = <<>>
    /\ clock = CACHE_TTL + 1
    /\ today = "monday"
    /\ _last_cache_time = 0
    /\ _cached_patients = <<>>
    /\ pc = [p \in Threads |-> "idle"]
    /\ req = [p \in Threads |-> NoRequest]
    /\ frame = [p \in Threads |-> NoFrame]
    /\ resp = [p \in Threads |-> NoResponse]
    /\ obs = [p \in Threads |-> NoObs]
    /\ last_get = <<>>
    /\ pending_add = <<>>
    /\ pending_att = <<>>
    /\ nreq = 0
    /\ col_input \in 0..MaxColIndex
    /\ col_index = col_input
    /\ letters = ""
    /\ col_running = TRUE
    /\ MatchIdle

\* lines 119-121: while col_index >= 0
ColumnTurn ==
    /\ col_running
    /\ col_index >= 0
    /\ letters' = ColumnLetter(col_index) \o letters
    /\ col_index' = ColumnCarry(col_index)
    /\ UNCHANGED <<col_input, col_running, appvars, matchvars>>

\* line 122: return letters
ColumnReturn ==
    /\ col_running
    /\ col_index < 0
    /\ col_running' = FALSE
    /\ UNCHANGED <<col_input, col_index, letters, appvars, matchvars>>

ColNext == ColumnTurn \/ ColumnReturn

\* The function runs to its return: it is one thread's straight-line code.
ColSpec == ColInit /\ [][ColNext]_vars /\ WF_vars(ColNext)

\* The label returned names the index the run began with.
ColumnReturned ==
    ~col_running =>
        /\ Len(letters) >= 1
        /\ \A k \in 1..Len(letters) : IndexIn(UpperLetters, Char(letters, k)) # 0
        /\ A1Column(letters) = col_input
        /\ col_input = 0 => letters = "A"
        /\ col_input = 1 => letters = "B"
        /\ col_input = 25 => letters = "Z"
        /\ col_input = 26 => letters = "AA"
        /\ col_input = 51 => letters = "AZ"
        /\ col_input = 701 => letters = "ZZ"
        /\ col_input = 702 => letters = "AAA"

\* C10: column_to_letter returns for every index from 0 on, and what it
\* returns is the bijective base-26 label of the index: reading the label
\* back gives the index, so two indices never share a label.
C10_ColumnLabel == []ColumnReturned /\ <>(~col_running)

C10_Witness == ~col_running /\ col_input = 702 /\ letters = "AAA"

(***************************************************************************)
(* matches_today, called on its own.                                       *)
(***************************************************************************)
\* Tokens as parse_visit_days leaves them: lower case, stripped, not empty.
MatchTokens ==
    {"daily", "twice daily", "dai", "monday", "mon", "mondays", "tue am", "day"}

MatchInputs == UNION {[1..n -> MatchTokens] : n \in 0..MaxTokens}

MatchInit ==
    /\ sheet = <<>>
    /\ clock = CACHE_TTL + 1
    /\ today = "monday"
    /\ _last_cache_time = 0
    /\ _cached_patients = <<>>
    /\ pc = [p \in Threads |-> "idle"]
    /\ req = [p \in Threads |-> NoRequest]
    /\ frame = [p \in Threads |-> NoFrame]
    /\ resp = [p \in Threads |-> NoResponse]
    /\ obs = [p \in Threads |-> NoObs]
    /\ last_get = <<>>
    /\ pending_add = <<>>
    /\ pending_att = <<>>
    /\ nreq = 0
    /\ ColIdle
    /\ visit_tokens \in MatchInputs
    /\ today_full \in Weekdays
    /\ match_running = TRUE
    /\ match_returns = FALSE

\* lines 135-144: the call runs to its return.
MatchReturn ==
    /\ match_running
    /\ match_returns' = matches_today(visit_tokens, today_full)
    /\ match_running' = FALSE
    /\ UNCHANGED <<visit_tokens, today_full, appvars, colvars>>

MatchNext == MatchReturn

MatchSpec == MatchInit /\ [][MatchNext]_vars

TodayShort == SubSeq(today_full, 1, 3)

\* Some token is "daily", or is or contains the weekday name or its first
\* three letters.
NamesToday(t) ==
    \/ t = today_full \/ t = TodayShort
    \/ Contains(today_full, t) \/ Contains(TodayShort, t)

\* C16, as stated: matches_today returns true exactly when some token equals
\* "daily", or equals or contains today's weekday name or its first three
\* letters.
C16_MatchesExactly ==
    ~match_running =>
        (match_returns <=>
            \E k \in 1..Len(visit_tokens) :
                visit_tokens[k] = "daily" \/ NamesToday(visit_tokens[k]))

\* C16, amended: matches_today returns true exactly when some token contains
\* "daily", or equals or contains today's weekday name or its first three
\* letters; so the empty list gives false and <<"daily">> gives true on
\* every weekday.
C16_MatchesContaining ==
    ~match_running =>
        /\ match_returns <=>
               \E k \in 1..Len(visit_tokens) :
                   Contains("daily", visit_tokens[k]) \/ NamesToday(visit_tokens[k])
        /\ visit_tokens = <<>> => ~match_returns
        /\ visit_tokens = <<"daily">> => match_returns

C16_Witness ==
    /\ ~match_running
    /\ visit_tokens = <<"dai", "twice daily">>
    /\ today_full = "friday"
    /\ match_returns

====
